---- MODULE Spec2Model ----
(***************************************************************************)
(* Model of packages/bundler-plugin-core/src/debug-id-upload.ts:           *)
(* createDebugIdUploadFunction (the batch orchestrator),                   *)
(* prepareBundleForDebugIdUpload (one unit per candidate bundle),          *)
(* determineDebugIdFromBundleSource, determineSourceMapPathFromBundle,     *)
(* prepareSourceMapForDebugIdUpload and defaultRewriteSourcesHook.         *)
(*                                                                         *)
(* Strings are sequences of tokens; the string is the concatenation of its *)
(* tokens.  A path is such a string with "/" tokens as separators.         *)
(***************************************************************************)
EXTENDS Integers, Sequences, FiniteSets, TLC

\* ------------------------------------------------------------------ bounds

\* most candidate bundles a run discovers
MaxChunks == 2
\* most lines of a bundle text handed to one unit
MaxLines == 2
\* longest `sources` array of a source map document
MaxSources == 2

\* ------------------------------------------------------------ string tokens

NL == "\n"
SMU == "//# sourceMappingURL="
DBG == "//# debugId="
MARK == "sentry-dbid-"
SEP == "/"
UuidLower == "0a1b2c3d-0a1b-4c3d-8e9f-0a1b2c3d4e5f"
UuidUpper == "0A1B2C3D-0A1B-4C3D-8E9F-0A1B2C3D4E5F"
\* tokens that the 8-4-4-4-12 hexadecimal pattern of line 211 matches
Uuids == {UuidLower, UuidUpper}
\* JavaScript's undefined (distinct from the string "undefined")
Undefined == "<undefined>"
UndefinedPath == <<Undefined>>

\* --------------------------------------------------------------- sequences

RECURSIVE SeqsUpTo(_, _)
SeqsUpTo(S, n) ==
  IF n = 0 THEN {<<>>}
  ELSE LET shorter == SeqsUpTo(S, n - 1)
       IN  shorter \cup {Append(s, x) : s \in {t \in shorter : Len(t) = n - 1}, x \in S}

RECURSIVE Flatten(_, _)
\* the sequences of ss joined by the separator token sep
Flatten(ss, sep) ==
  IF Len(ss) = 0 THEN <<>>
  ELSE IF Len(ss) = 1 THEN ss[1]
  ELSE ss[1] \o <<sep>> \o Flatten(Tail(ss), sep)

RECURSIVE Split(_, _)
\* the maximal runs of s between occurrences of the token sep
Split(s, sep) ==
  IF \A i \in 1..Len(s) : s[i] # sep THEN <<s>>
  ELSE LET p == CHOOSE i \in 1..Len(s) : s[i] = sep /\ \A j \in 1..(i - 1) : s[j] # sep
       IN  <<SubSeq(s, 1, p - 1)>> \o Split(SubSeq(s, p + 1, Len(s)), sep)

\* --------------------------------------------------------- node's path module

IsAbsolute(p) == Len(p) > 0 /\ p[1] = SEP

RECURSIVE ResolveSegs(_, _, _)
\* posix normalisation of a segment list: "." and empty segments vanish, ".."
\* removes the segment before it (and vanishes at the root of an absolute path)
ResolveSegs(segs, acc, abs) ==
  IF Len(segs) = 0 THEN acc
  ELSE LET s == Head(segs)
           rest == Tail(segs)
       IN  IF s = <<>> \/ s = <<".">> THEN ResolveSegs(rest, acc, abs)
           ELSE IF s = <<"..">> THEN
             IF Len(acc) > 0 /\ acc[Len(acc)] # <<"..">>
               THEN ResolveSegs(rest, SubSeq(acc, 1, Len(acc) - 1), abs)
             ELSE IF abs THEN ResolveSegs(rest, acc, abs)
             ELSE ResolveSegs(rest, Append(acc, s), abs)
           ELSE ResolveSegs(rest, Append(acc, s), abs)

NormSegs(p) == ResolveSegs(Split(p, SEP), <<>>, IsAbsolute(p))

\* path.normalize
Normalize(p) ==
  LET body == Flatten(NormSegs(p), SEP)
  IN  IF IsAbsolute(p) THEN <<SEP>> \o body
      ELSE IF body = <<>> THEN <<".">> ELSE body

\* path.dirname
Dirname(p) ==
  LET slashes == {i \in 1..Len(p) : p[i] = SEP}
  IN  IF slashes = {} THEN <<".">>
      ELSE LET last == CHOOSE i \in slashes : \A j \in slashes : j <= i
           IN  IF last = 1 THEN <<SEP>> ELSE SubSeq(p, 1, last - 1)

\* path.join of two parts
Join(a, b) == Normalize(a \o <<SEP>> \o b)

\* process.cwd()
Cwd == <<SEP, "work">>

RECURSIVE CommonPrefixLen(_, _)
CommonPrefixLen(a, b) ==
  IF Len(a) = 0 \/ Len(b) = 0 \/ Head(a) # Head(b) THEN 0
  ELSE 1 + CommonPrefixLen(Tail(a), Tail(b))

\* path.relative(from, to) for an absolute `from`
Relative(from, to) ==
  LET f == NormSegs(from)
      t == NormSegs(IF IsAbsolute(to) THEN to ELSE from \o <<SEP>> \o to)
      c == CommonPrefixLen(f, t)
      ups == [i \in 1..(Len(f) - c) |-> <<"..">>]
  IN  Flatten(ups \o SubSeq(t, c + 1, Len(t)), SEP)

\* ------------------------------------------- determineDebugIdFromBundleSource

\* MarkerPositions with a pattern that accepts any token after the prefix
MarkerPositions_AnyToken(code) ==
  {p \in 1..(Len(code) - 1) : code[p] = MARK}

\* positions where /sentry-dbid-([0-9a-fA-F]{8}\b-...-[0-9a-fA-F]{12})/ matches
MarkerPositions(code) ==
  {p \in 1..(Len(code) - 1) : code[p] = MARK /\ code[p + 1] \in Uuids}

\* determineDebugIdFromBundleSource returning the match in lower case
determineDebugIdFromBundleSource_Lowercased(code) ==
  IF MarkerPositions(code) = {} THEN Undefined ELSE UuidLower

\* String.prototype.match without the g flag: the leftmost match, group 1
determineDebugIdFromBundleSource(code) ==
  IF MarkerPositions(code) = {} THEN Undefined
  ELSE LET p == CHOOSE q \in MarkerPositions(code) : \A r \in MarkerPositions(code) : q <= r
       IN  code[p + 1]

\* ------------------------------------------- determineSourceMapPathFromBundle

\* bundleSource.match(/^\/\/# sourceMappingURL=(.*)$/): no m flag, so ^ and $
\* are the two ends of the whole text, and "." matches no line terminator
sourceMappingUrlMatch(bundleSource) ==
  IF /\ Len(bundleSource) >= 1
     /\ bundleSource[1] = SMU
     /\ \A i \in 2..Len(bundleSource) : bundleSource[i] # NL
  THEN [matched |-> TRUE, group |-> Tail(bundleSource)]
  ELSE [matched |-> FALSE, group |-> <<>>]

\* lines 234-239: the path a matched sourceMappingURL value resolves to
ResolveSourceMappingUrl(bundlePath, value) ==
  LET sourceMappingUrl == Normalize(value)
  IN  IF IsAbsolute(sourceMappingUrl) THEN sourceMappingUrl
      ELSE Join(Dirname(bundlePath), sourceMappingUrl)

\* line 244
AdjacentSourceMapFilePath(bundlePath) == Append(bundlePath, ".map")

\* ------------------------------------------------------- JSON, source maps

\* a `sources` value: absent, something that is no array, or an array
NoSources == [tag |-> "absent", items |-> <<>>]
OtherSources == [tag |-> "other", items |-> <<>>]
ArraySources(items) == [tag |-> "array", items |-> items]

\* what JSON.parse yields: the kind of value and the three keys this code
\* touches; "invalid" stands for a text JSON.parse throws on
Doc(kind, sources, id) ==
  [kind |-> kind, sources |-> sources, debug_id |-> id, debugId |-> id]
InvalidDoc == Doc("invalid", NoSources, Undefined)

\* a file's content: its text and what JSON.parse makes of that text
TextFile(text) == [text |-> text, json |-> InvalidDoc]
JsonFile(doc) == [text |-> <<"<json>">>, json |-> doc]

JsonParse(content) ==
  [threw |-> content.json.kind = "invalid", value |-> content.json]

\* JSON.stringify: an array is written as its elements alone, so properties
\* set on an array object are not part of the text
JsonStringify(value) ==
  JsonFile(IF value.kind = "array"
           THEN [value EXCEPT !.debug_id = Undefined, !.debugId = Undefined]
           ELSE value)

\* lines 282-283 (strict mode): assigning a property of null or of a
\* primitive throws a TypeError, on an object or an array it sets the property
SetDebugIds(map, debugId) ==
  IF map.kind \in {"null", "number"}
  THEN [threw |-> TRUE, value |-> map]
  ELSE [threw |-> FALSE,
        value |-> [map EXCEPT !.debug_id = debugId, !.debugId = debugId]]

\* -------------------------------------------------------------- rewrite hooks

Schemes == {"https://", "webpack://"}
\* a `sources` entry that is no string (JSON null)
NullEntry == <<"<null>">>

\* lines 303-310: source.match throws a TypeError when source is no string
defaultRewriteSourcesHook(source) ==
  IF source = NullEntry THEN [threw |-> TRUE, value |-> source]
  ELSE IF Len(source) > 0 /\ source[1] \in Schemes
    THEN [threw |-> FALSE, value |-> Tail(source)]
  ELSE [threw |-> FALSE, value |-> Relative(Cwd, Normalize(source))]

\* a user-supplied hook: a total function that prefixes every entry
customRewriteSourcesHook(source, map) ==
  [threw |-> FALSE, value |-> <<"~", SEP>> \o source]

\* line 101: rewriteSourcesHook ?? defaultRewriteSourcesHook
CallHook(hook, source, map) ==
  IF hook = Undefined THEN defaultRewriteSourcesHook(source)
  ELSE customRewriteSourcesHook(source, map)

\* lines 289-291: the hook is called on every entry of a `sources` array; the
\* array Array.prototype.map builds is not assigned to anything
RewriteSources(map, hook) ==
  IF map.sources.tag = "array"
  THEN LET items == map.sources.items
           results == [i \in 1..Len(items) |-> CallHook(hook, items[i], map)]
       IN  [threw |-> \E i \in 1..Len(items) : results[i].threw, value |-> map]
  ELSE [threw |-> FALSE, value |-> map]

\* ------------------------------------------------------------------- state

VARIABLES
  opts,             \* the options createDebugIdUploadFunction was given
  disk,             \* the file system: path -> content of every file
  dirExists,        \* whether the staging directory exists on disk
  units,            \* one record per prepareBundleForDebugIdUpload call
  logs,             \* what was handed to the logger
  pc,               \* the await the returned async function is suspended at
  folderToCleanUp,  \* line 51
  caught,           \* the error the catch clause of line 137 received
  uploadCalls,      \* arguments of each cliInstance.releases.uploadSourceMaps call
  handled,          \* argument of each handleRecoverableError call
  result,           \* state of the promise the async function returned
  rm,               \* state of the fs.promises.rm of line 143
  rmPending,        \* source files whose fs.promises.rm of line 133 is in flight
  trace             \* the calls the async function made to the outside, in order

unitVars == <<disk, units, logs>>
orchVars == <<pc, folderToCleanUp, caught, uploadCalls, handled, result, rm, trace>>
vars == <<opts, disk, dirExists, units, logs, pc, folderToCleanUp, caught,
          uploadCalls, handled, result, rm, rmPending, trace>>

\* os.tmpdir() joined with the mkdtemp prefix and the suffix mkdtemp appends
TmpUploadFolder == <<SEP, "tmp", SEP, "sentry-bundler-plugin-upload-", "Ab12Cd">>

InFolder(path, folder) ==
  Len(path) > Len(folder) + 1 /\ SubSeq(path, 1, Len(folder) + 1) = folder \o <<SEP>>

\* the files of the staging directory
Staged == {p \in DOMAIN disk : InFolder(p, TmpUploadFolder)}

\* a directory other than the staging directory always exists
DirPresent(dir) == dir # TmpUploadFolder \/ dirExists

WriteFile(files, path, content) ==
  [p \in DOMAIN files \cup {path} |-> IF p = path THEN content ELSE files[p]]

RemoveFiles(files, paths) == [p \in DOMAIN files \ paths |-> files[p]]

Log(level, msg, about) == [level |-> level, msg |-> msg, about |-> about]

\* ---------------------------------------------- prepareBundleForDebugIdUpload

NewUnit(bundleFilePath, uploadFolder, chunkIndex) ==
  [bundleFilePath |-> bundleFilePath,
   uploadFolder |-> uploadFolder,
   chunkIndex |-> chunkIndex,
   st |-> "readBundle",        \* readBundle, skipped, started
   skip |-> "",                \* why the unit returned early
   bundleContent |-> <<>>,
   debugId |-> Undefined,
   bw |-> "none",              \* the write of line 178: none, inflight, ok, failed
   mp |-> "none",              \* the map pipeline of lines 184-198
   sourceMapPath |-> UndefinedPath,
   parsed |-> InvalidDoc,      \* what JSON.parse returned (line 280)
   map |-> InvalidDoc,         \* the document handed to JSON.stringify
   err |-> Undefined]          \* the reason the unit's promise rejected with

\* UniqueUploadName without the chunk index: the identifier alone
UniqueUploadName_NoIndex(debugId, chunkIndex) == <<debugId>>

\* line 175
UniqueUploadName(debugId, chunkIndex) == <<debugId, "-", ToString(chunkIndex)>>
\* lines 179 and 192
StagedBundlePath(u) ==
  Join(u.uploadFolder, UniqueUploadName(u.debugId, u.chunkIndex) \o <<".js">>)
\* StagedMapPath named after the chunk index alone
StagedMapPath_IndexOnly(u) ==
  Join(u.uploadFolder, <<"chunk", "-", ToString(u.chunkIndex), ".js.map">>)

StagedMapPath(u) ==
  Join(u.uploadFolder, UniqueUploadName(u.debugId, u.chunkIndex) \o <<".js.map">>)

MapPending == {"access", "readMap", "writeMap"}
MapSettled == {"noMap", "readErr", "parseErr", "writeErr", "written"}

\* the promise prepareBundleForDebugIdUpload returned: Promise.all of line 200
\* rejects with the first rejection and fulfils when both parts have
UnitPromise(u) ==
  IF u.st = "readBundle" THEN "pending"
  ELSE IF u.st = "skipped" THEN "fulfilled"
  ELSE IF u.err # Undefined THEN "rejected"
  ELSE IF u.bw = "ok" /\ u.mp \in MapSettled THEN "fulfilled"
  ELSE "pending"

\* an asynchronous operation of the unit that has not completed
UnitBusy(u) ==
  u.st = "readBundle" \/ u.bw = "inflight" \/ u.mp \in MapPending

\* a write into the staging directory that has not completed
WriteInFlight(u) == u.bw = "inflight" \/ u.mp = "writeMap"

FirstError(u, e) == IF u.err = Undefined THEN e ELSE u.err

\* lines 167-198, run when the read of line 158 succeeded
StartUnit(u, text) ==
  LET debugId == determineDebugIdFromBundleSource(text)
      bundleContent == text \o <<NL, DBG, debugId>>
      m == sourceMappingUrlMatch(bundleContent)
  IN  IF debugId = Undefined
      THEN [u EXCEPT !.st = "skipped", !.skip = "noDebugId", !.bundleContent = text]
      ELSE [u EXCEPT !.st = "started",
                     !.debugId = debugId,
                     !.bundleContent = bundleContent,
                     !.bw = "inflight",
                     !.mp = IF m.matched THEN "readMap" ELSE "access",
                     !.sourceMapPath =
                        IF m.matched
                        THEN ResolveSourceMappingUrl(u.bundleFilePath, m.group)
                        ELSE UndefinedPath]

\* TransformMap without the try/catch of lines 279-287: a parse error escapes
TransformMap_ParseErrorEscapes(u, content) ==
  LET parsed == JsonParse(content)
      stamped == SetDebugIds(parsed.value, u.debugId)
      rewritten == RewriteSources(stamped.value, opts.rewriteSourcesHook)
  IN  IF parsed.threw \/ stamped.threw \/ rewritten.threw
      THEN [u EXCEPT !.mp = "threw", !.err = FirstError(u, "hook-threw")]
      ELSE [u EXCEPT !.mp = "writeMap", !.parsed = parsed.value,
                     !.map = rewritten.value]

\* lines 278-296, run when the read of line 270 succeeded
TransformMap(u, content) ==
  LET parsed == JsonParse(content)
      stamped == SetDebugIds(parsed.value, u.debugId)
      rewritten == RewriteSources(stamped.value, opts.rewriteSourcesHook)
  IN  IF parsed.threw \/ stamped.threw
      THEN [u EXCEPT !.mp = "parseErr"]
      ELSE IF rewritten.threw
      THEN [u EXCEPT !.mp = "threw", !.parsed = parsed.value,
                     !.err = FirstError(u, "hook-threw")]
      ELSE [u EXCEPT !.mp = "writeMap", !.parsed = parsed.value,
                     !.map = rewritten.value]

\* ------------------------------------- createDebugIdUploadFunction, the steps
\* the async function takes between two awaits, as functions of its state

Orch ==
  [pc |-> pc, folderToCleanUp |-> folderToCleanUp, caught |-> caught,
   uploadCalls |-> uploadCalls, handled |-> handled, result |-> result,
   rm |-> rm, trace |-> trace]

SetOrch(o) ==
  /\ pc' = o.pc
  /\ folderToCleanUp' = o.folderToCleanUp
  /\ caught' = o.caught
  /\ uploadCalls' = o.uploadCalls
  /\ handled' = o.handled
  /\ result' = o.result
  /\ rm' = o.rm
  /\ trace' = o.trace

\* Finally with the removal at the end of the try block instead: it is skipped
\* when an exception was caught
Finally_OnlyWithoutException(o, outcome) ==
  LET cleaned == IF o.folderToCleanUp # UndefinedPath /\ o.caught = Undefined
                 THEN [o EXCEPT !.rm = "inflight", !.trace = Append(@, "rm")]
                 ELSE o
  IN  [cleaned EXCEPT !.pc = "done", !.result = outcome]

\* lines 141-145, then the async function returns or rethrows
Finally(o, outcome) ==
  LET cleaned == IF o.folderToCleanUp # UndefinedPath
                 THEN [o EXCEPT !.rm = "inflight", !.trace = Append(@, "rm")]
                 ELSE o
  IN  [cleaned EXCEPT !.pc = "done", !.result = outcome]

\* lines 137-139: captureException returns, the flush is awaited
Catch(o, e) ==
  [o EXCEPT !.caught = e,
            !.trace = @ \o <<"captureException", "flush">>,
            !.pc = "flush"]

\* UploadArgs without the `?? "undefined"` of line 107
UploadArgs_NoPlaceholder(o) ==
  [releaseName |-> opts.releaseName,
   include |-> <<[paths |-> <<o.folderToCleanUp>>, rewrite |-> FALSE,
                  dist |-> opts.dist]>>,
   useArtifactBundle |-> TRUE]

\* lines 106-118
UploadArgs(o) ==
  [releaseName |-> IF opts.releaseName = Undefined THEN "undefined"
                   ELSE opts.releaseName,
   include |-> <<[paths |-> <<o.folderToCleanUp>>, rewrite |-> FALSE,
                  dist |-> opts.dist]>>,
   useArtifactBundle |-> TRUE]

StartUpload(o) ==
  [o EXCEPT !.pc = "upload",
            !.trace = Append(@, "uploadSourceMaps"),
            !.uploadCalls = Append(@, UploadArgs(o))]

\* DeleteStage with the deletion inside the branch of lines 93-119: it runs
\* only when the uploader was invoked
DeleteStage_OnlyAfterUpload(o) ==
  IF opts.deleteFilesAfterUpload # Undefined /\ o.uploadCalls # <<>>
  THEN [o EXCEPT !.pc = "globDelete", !.trace = Append(@, "glob")]
  ELSE Finally(o, "fulfilled")

\* lines 121-125, and the end of the try block when nothing is to be deleted
DeleteStage(o) ==
  IF opts.deleteFilesAfterUpload # Undefined
  THEN [o EXCEPT !.pc = "globDelete", !.trace = Append(@, "glob")]
  ELSE Finally(o, "fulfilled")

\* AwaitPrepare with Promise.race in place of Promise.all: the first unit
\* that settles decides
AwaitPrepare_FirstSettled(i) ==
  IF pc = "prepare" /\ UnitPromise(units[i]) = "pending"
     /\ UnitPromise(units'[i]) = "rejected"
  THEN SetOrch(Catch(Orch, units'[i].err))
  ELSE IF pc = "prepare" /\ UnitPromise(units'[i]) = "fulfilled"
  THEN SetOrch(StartUpload(Orch))
  ELSE UNCHANGED orchVars

\* lines 94-104: Promise.all over the units rejects with the first rejection
\* and fulfils when every unit has; the step of unit i decides it
AwaitPrepare(i) ==
  IF pc = "prepare" /\ UnitPromise(units[i]) = "pending"
     /\ UnitPromise(units'[i]) = "rejected"
  THEN SetOrch(Catch(Orch, units'[i].err))
  ELSE IF pc = "prepare"
          /\ \A j \in DOMAIN units : UnitPromise(units'[j]) = "fulfilled"
  THEN SetOrch(StartUpload(Orch))
  ELSE UNCHANGED orchVars

\* -------------------------------------- actions of one unit (lines 149-301)

\* the read of line 158 completes
ReadBundleDone(i) ==
  /\ units[i].st = "readBundle"
  /\ \/ /\ units[i].bundleFilePath \in DOMAIN disk
        /\ units' = [units EXCEPT
                       ![i] = StartUnit(@, disk[units[i].bundleFilePath].text)]
        /\ logs' = IF units'[i].st = "skipped"
                   THEN logs \cup {Log("debug", "no debug ID", i)}
                   ELSE logs
     \/ /\ units' = [units EXCEPT ![i].st = "skipped", ![i].skip = "readError"]
        /\ logs' = logs \cup {Log("error", "could not read bundle", i)}
  /\ AwaitPrepare(i)
  /\ UNCHANGED <<opts, disk, dirExists, rmPending>>

\* the write of line 178 completes
WriteBundleDone(i) ==
  /\ units[i].bw = "inflight"
  /\ \/ /\ DirPresent(units[i].uploadFolder)
        /\ disk' = WriteFile(disk, StagedBundlePath(units[i]),
                             TextFile(units[i].bundleContent))
        /\ units' = [units EXCEPT ![i].bw = "ok"]
     \/ /\ units' = [units EXCEPT ![i].bw = "failed",
                                  ![i].err = FirstError(units[i], "bundle-write-failed")]
        /\ UNCHANGED disk
  /\ AwaitPrepare(i)
  /\ UNCHANGED <<opts, dirExists, logs, rmPending>>

\* the existence check of line 245 completes (lines 243-255)
AccessDone(i) ==
  /\ units[i].mp = "access"
  /\ LET adjacent == AdjacentSourceMapFilePath(units[i].bundleFilePath)
     IN  IF adjacent \in DOMAIN disk
         THEN /\ units' = [units EXCEPT ![i].mp = "readMap",
                                        ![i].sourceMapPath = adjacent]
              /\ UNCHANGED logs
         ELSE /\ units' = [units EXCEPT ![i].mp = "noMap"]
              /\ logs' = logs \cup {Log("debug", "no source map path", i)}
  /\ AwaitPrepare(i)
  /\ UNCHANGED <<opts, disk, dirExists, rmPending>>

\* the read of line 270 completes (lines 268-292)
ReadMapDone(i) ==
  /\ units[i].mp = "readMap"
  /\ \/ /\ units[i].sourceMapPath \in DOMAIN disk
        /\ units' = [units EXCEPT
                       ![i] = TransformMap(@, disk[units[i].sourceMapPath])]
        /\ logs' = IF units'[i].mp = "parseErr"
                   THEN logs \cup {Log("error", "failed to parse source map", i)}
                   ELSE logs
     \/ /\ units' = [units EXCEPT ![i].mp = "readErr"]
        /\ logs' = logs \cup {Log("error", "failed to read source map", i)}
  /\ AwaitPrepare(i)
  /\ UNCHANGED <<opts, disk, dirExists, rmPending>>

\* WriteMapDone writing the stamped document back over the source map
WriteMapDone_InPlace(i) ==
  /\ units[i].mp = "writeMap"
  /\ \/ /\ disk' = WriteFile(disk, units[i].sourceMapPath,
                             JsonStringify(units[i].map))
        /\ units' = [units EXCEPT ![i].mp = "written"]
        /\ UNCHANGED logs
     \/ /\ units' = [units EXCEPT ![i].mp = "writeErr"]
        /\ logs' = logs \cup {Log("error", "failed to prepare source map", i)}
        /\ UNCHANGED disk
  /\ AwaitPrepare(i)
  /\ UNCHANGED <<opts, dirExists, rmPending>>

\* the write of line 294 completes (lines 293-300)
WriteMapDone(i) ==
  /\ units[i].mp = "writeMap"
  /\ \/ /\ DirPresent(units[i].uploadFolder)
        /\ disk' = WriteFile(disk, StagedMapPath(units[i]),
                             JsonStringify(units[i].map))
        /\ units' = [units EXCEPT ![i].mp = "written"]
        /\ UNCHANGED logs
     \/ /\ units' = [units EXCEPT ![i].mp = "writeErr"]
        /\ logs' = logs \cup {Log("error", "failed to prepare source map", i)}
        /\ UNCHANGED disk
  /\ AwaitPrepare(i)
  /\ UNCHANGED <<opts, dirExists, rmPending>>

UnitStep(i) ==
  \/ ReadBundleDone(i)
  \/ WriteBundleDone(i)
  \/ AccessDone(i)
  \/ ReadMapDone(i)
  \/ WriteMapDone(i)

\* ------------------------------------------------------------ build output

OutDir == Cwd \o <<SEP, "out">>
ScriptExtensions == {".js", ".mjs", ".cjs"}
\* the k-th bundle the bundler wrote, k = 0, 1, ...
BundlePath(k) ==
  OutDir \o <<SEP, "chunk", ToString(k), IF k % 2 = 0 THEN ".js" ELSE ".mjs">>
MapPath(k) == AdjacentSourceMapFilePath(BundlePath(k))
\* every path the build can have written, in directory order
BuildArtifactPaths ==
  LET n == MaxChunks
  IN  [j \in 1..(2 * n) |-> IF j % 2 = 1 THEN BundlePath((j - 1) \div 2)
                              ELSE MapPath((j - 2) \div 2)]

EmptyList == "[]"
AssetsPattern == "out/**"
DeletePattern == "out/**/*.map"

\* glob(patterns, {absolute: true, nodir: true}): the existing files matched
Glob(patterns, files) ==
  LET matches(p) ==
        /\ p \in DOMAIN files
        /\ patterns # EmptyList
        /\ patterns = DeletePattern => p[Len(p)] = ".map"
  IN  SelectSeq(BuildArtifactPaths, matches)

\* lines 78-83
IsScript(p) == p[Len(p)] \in ScriptExtensions

Range(s) == {s[i] : i \in 1..Len(s)}

\* ------------------------- actions of the async function (lines 50-146)

\* the function createDebugIdUploadFunction returned is called: lines 51-58
Invoke ==
  /\ pc = "idle"
  /\ pc' = "mkdtemp"
  /\ trace' = Append(trace, "mkdtemp")
  /\ UNCHANGED <<opts, disk, dirExists, units, logs, folderToCleanUp, caught,
                 uploadCalls, handled, result, rm, rmPending>>

\* mkdtemp completes: lines 56-77
MkdtempDone ==
  /\ pc = "mkdtemp"
  /\ \/ /\ dirExists' = TRUE
        /\ SetOrch([Orch EXCEPT !.folderToCleanUp = TmpUploadFolder,
                                !.pc = "glob",
                                !.trace = Append(@, "glob")])
        /\ logs' = IF opts.assets = Undefined
                   THEN logs \cup {Log("debug", "no assets option", 0)}
                   ELSE logs
     \/ /\ SetOrch(Catch(Orch, "mkdtemp-failed"))
        /\ UNCHANGED <<dirExists, logs>>
  /\ UNCHANGED <<opts, disk, units, rmPending>>

\* GlobDone without the branch of lines 85-88: an empty `assets` list is
\* handled like any list that matched nothing
GlobDone_NoEmptyListBranch ==
  /\ pc = "glob"
  /\ \/ LET globAssets == IF opts.assets # Undefined THEN opts.assets
                          ELSE AssetsPattern
            debugIdChunkFilePaths == SelectSeq(Glob(globAssets, disk), IsScript)
        IN  IF Len(debugIdChunkFilePaths) = 0
            THEN /\ logs' = logs \cup {Log("warn", "no matching sources", 0)}
                 /\ SetOrch(DeleteStage(Orch))
                 /\ UNCHANGED units
            ELSE /\ units' = [i \in 1..Len(debugIdChunkFilePaths) |->
                                NewUnit(debugIdChunkFilePaths[i], folderToCleanUp, i - 1)]
                 /\ SetOrch([Orch EXCEPT !.pc = "prepare"])
                 /\ UNCHANGED logs
     \/ /\ SetOrch(Catch(Orch, "glob-failed"))
        /\ UNCHANGED <<units, logs>>
  /\ UNCHANGED <<opts, disk, dirExists, rmPending>>

\* the glob of line 73 completes: lines 72-104
GlobDone ==
  /\ pc = "glob"
  /\ \/ LET globAssets == IF opts.assets # Undefined THEN opts.assets
                          ELSE AssetsPattern
            debugIdChunkFilePaths == SelectSeq(Glob(globAssets, disk), IsScript)
        IN  IF opts.assets = EmptyList
            THEN /\ logs' = logs \cup {Log("debug", "empty assets option", 0)}
                 /\ SetOrch(DeleteStage(Orch))
                 /\ UNCHANGED units
            ELSE IF Len(debugIdChunkFilePaths) = 0
            THEN /\ logs' = logs \cup {Log("warn", "no matching sources", 0)}
                 /\ SetOrch(DeleteStage(Orch))
                 /\ UNCHANGED units
            ELSE /\ units' = [i \in 1..Len(debugIdChunkFilePaths) |->
                                NewUnit(debugIdChunkFilePaths[i], folderToCleanUp, i - 1)]
                 /\ SetOrch([Orch EXCEPT !.pc = "prepare"])
                 /\ UNCHANGED logs
     \/ /\ SetOrch(Catch(Orch, "glob-failed"))
        /\ UNCHANGED <<units, logs>>
  /\ UNCHANGED <<opts, disk, dirExists, rmPending>>

\* UploadDone with the deletion in a finally block: it also runs when the
\* upload threw
UploadDone_DeletesOnFailure ==
  /\ pc = "upload"
  /\ \/ SetOrch(DeleteStage(Orch))
     \/ SetOrch(DeleteStage([Orch EXCEPT !.caught = "upload-failed"]))
  /\ UNCHANGED <<opts, disk, dirExists, units, logs, rmPending>>

\* the upload of line 106 completes
UploadDone ==
  /\ pc = "upload"
  /\ \/ SetOrch(DeleteStage(Orch))
     \/ SetOrch(Catch(Orch, "upload-failed"))
  /\ UNCHANGED <<opts, disk, dirExists, units, logs, rmPending>>

\* the glob of line 122 completes: lines 122-135
GlobDeleteDone ==
  /\ pc = "globDelete"
  /\ \/ LET filePathsToDelete == Glob(opts.deleteFilesAfterUpload, disk)
        IN  /\ logs' = logs \cup {Log("debug", "deleting asset", p) :
                                    p \in DOMAIN filePathsToDelete}
            /\ rmPending' = Range(filePathsToDelete)
            /\ IF Len(filePathsToDelete) = 0
               THEN SetOrch(Finally(Orch, "fulfilled"))
               ELSE SetOrch([Orch EXCEPT !.pc = "rmSources",
                                         !.trace = Append(@, "rmSources")])
     \/ /\ SetOrch(Catch(Orch, "delete-glob-failed"))
        /\ UNCHANGED <<logs, rmPending>>
  /\ UNCHANGED <<opts, disk, dirExists, units>>

\* one fs.promises.rm of line 133 completes; Promise.all of line 131 rejects
\* with the first rejection and fulfils when every rm has
RmSourceDone(p) ==
  /\ p \in rmPending
  /\ rmPending' = rmPending \ {p}
  /\ \/ /\ disk' = RemoveFiles(disk, {p})
        /\ IF pc = "rmSources" /\ rmPending' = {}
           THEN SetOrch(Finally(Orch, "fulfilled"))
           ELSE UNCHANGED orchVars
     \/ /\ UNCHANGED disk
        /\ IF pc = "rmSources"
           THEN SetOrch(Catch(Orch, "rm-failed"))
           ELSE UNCHANGED orchVars
  /\ UNCHANGED <<opts, dirExists, units, logs>>

\* HandleRecoverableError followed by a rethrow of the caught error
HandleRecoverableError_Rethrows(o, threw) ==
  Finally([o EXCEPT !.handled = Append(@, [error |-> o.caught, threw |-> threw]),
                    !.trace = Append(@, "handleRecoverableError")],
          "rejected")

\* lines 140-145, run when the flush of line 139 completed
HandleRecoverableError(o, threw) ==
  Finally([o EXCEPT !.handled = Append(@, [error |-> o.caught, threw |-> threw]),
                    !.trace = Append(@, "handleRecoverableError")],
          IF threw THEN "rejected" ELSE "fulfilled")

\* the flush of line 139 completes; handleRecoverableError returns or throws,
\* as its caller decided
FlushDone ==
  /\ pc = "flush"
  /\ \/ SetOrch(HandleRecoverableError(Orch, FALSE))
     \/ SetOrch(HandleRecoverableError(Orch, TRUE))
  /\ UNCHANGED <<opts, disk, dirExists, units, logs, rmPending>>

\* the rm of line 143, which nothing awaits, completes
RmStagingDone ==
  /\ rm = "inflight"
  /\ \/ /\ rm' = "done"
        /\ dirExists' = FALSE
        /\ disk' = RemoveFiles(disk, Staged)
     \/ /\ rm' = "failed"
        /\ UNCHANGED <<dirExists, disk>>
  /\ UNCHANGED <<opts, units, logs, pc, folderToCleanUp, caught, uploadCalls,
                 handled, result, rmPending, trace>>

\* -------------------------------------------------------------- inputs

\* bundle texts: up to MaxLines lines, each of one of these kinds
LineKinds ==
  { <<"x">>,
    <<MARK, UuidLower>>,
    <<"x", MARK, UuidUpper, "x">>,
    <<MARK, "not-a-uuid">>,
    <<SMU, SEP, "maps", SEP, "a.js.map">>,
    <<SMU, "..", SEP, "maps", SEP, "a.js.map">>,
    <<SMU, "m", MARK, UuidLower>> }
BundleTexts == {Flatten(ls, NL) : ls \in SeqsUpTo(LineKinds, MaxLines)}

SourceEntries ==
  { <<"https://", "cdn.example.com", SEP, "app.js">>,
    <<SEP, "work", SEP, "src", SEP, "a.ts">>,
    <<"src", SEP, "b.ts">>,
    NullEntry }
StaleId == "stale-id"
MapDocs ==
  { Doc("null", NoSources, Undefined),
    Doc("number", NoSources, Undefined),
    Doc("array", NoSources, Undefined),
    Doc("object", NoSources, Undefined),
    Doc("object", OtherSources, Undefined),
    Doc("object", NoSources, StaleId) }
  \cup {Doc("object", ArraySources(s), Undefined) : s \in SeqsUpTo(SourceEntries, MaxSources)}
Malformed == TextFile(<<"{", "sources">>)
MapFiles == {JsonFile(d) : d \in MapDocs} \cup {Malformed}

\* the inputs of the runs of the whole function: few texts, few maps
FewTexts == {<<MARK, UuidLower>>, <<"x", MARK, "not-a-uuid">>}
FewMaps ==
  { JsonFile(Doc("object", ArraySources(<<<<"https://", "cdn.example.com", SEP, "app.js">>>>), Undefined)),
    JsonFile(Doc("object", ArraySources(<<NullEntry>>), Undefined)),
    Malformed }

\* stands for a file that does not exist
NoFile == TextFile(<<"<absent>">>)

\* a build output of n bundles, some with a source map beside them
BuildOutputs(n, texts, maps) ==
  LET choice == [0..(n - 1) -> texts \X ({NoFile} \cup maps)]
      paths(c) == {BundlePath(k) : k \in 0..(n - 1)}
                  \cup {MapPath(k) : k \in {j \in 0..(n - 1) : c[j][2] # NoFile}}
      k(p) == CHOOSE j \in 0..(n - 1) : p \in {BundlePath(j), MapPath(j)}
  IN  {[p \in paths(c) |-> IF p = BundlePath(k(p)) THEN TextFile(c[k(p)][1])
                           ELSE c[k(p)][2]] : c \in choice}

\* ------------------------------------------------- the whole function

Options ==
  [assets : {Undefined, EmptyList, AssetsPattern},
   releaseName : {Undefined, "1.0.0"},
   dist : {Undefined, "prod"},
   rewriteSourcesHook : {Undefined},
   deleteFilesAfterUpload : {Undefined, DeletePattern}]

\* the state after createDebugIdUploadFunction(options) returned
Init ==
  /\ opts \in Options
  /\ \E n \in 0..MaxChunks : disk \in BuildOutputs(n, FewTexts, FewMaps)
  /\ dirExists = FALSE
  /\ units = <<>>
  /\ logs = {}
  /\ pc = "idle"
  /\ folderToCleanUp = UndefinedPath
  /\ caught = Undefined
  /\ uploadCalls = <<>>
  /\ handled = <<>>
  /\ result = "pending"
  /\ rm = "none"
  /\ rmPending = {}
  /\ trace = <<>>

Next ==
  \/ Invoke
  \/ MkdtempDone
  \/ GlobDone
  \/ \E i \in DOMAIN units : UnitStep(i)
  \/ UploadDone
  \/ GlobDeleteDone
  \/ \E p \in rmPending : RmSourceDone(p)
  \/ FlushDone
  \/ RmStagingDone

Spec == Init /\ [][Next]_vars

\* ---------------------- one call of prepareBundleForDebugIdUpload by itself

UnitOptions ==
  [assets : {Undefined},
   releaseName : {Undefined},
   dist : {Undefined},
   rewriteSourcesHook : {Undefined, "custom"},
   deleteFilesAfterUpload : {Undefined}]

\* the state when prepareBundleForDebugIdUpload has been called on one bundle
\* with an existing upload folder: every text with a few maps, and every map
\* with a few texts
InitUnit ==
  /\ opts \in UnitOptions
  /\ disk \in BuildOutputs(1, BundleTexts, FewMaps)
              \cup BuildOutputs(1, FewTexts, MapFiles)
  /\ dirExists = TRUE
  /\ \E c \in {0, MaxChunks - 1} :
       units = <<NewUnit(BundlePath(0), TmpUploadFolder, c)>>
  /\ logs = {}
  /\ pc = "external"
  /\ folderToCleanUp = UndefinedPath
  /\ caught = Undefined
  /\ uploadCalls = <<>>
  /\ handled = <<>>
  /\ result = "pending"
  /\ rm = "none"
  /\ rmPending = {}
  /\ trace = <<>>

NextUnit == \E i \in DOMAIN units : UnitStep(i)

SpecUnit == InitUnit /\ [][NextUnit]_vars

\* ------------------------------------------------------------- properties

Count(s, e) == Cardinality({i \in 1..Len(s) : s[i] = e})

\* the run of the async function has finished: its promise has settled
Finished == pc = "done"
\* the staging directory was created in this run
StagingCreated == folderToCleanUp # UndefinedPath

\* C1: once a run that created the staging directory has finished (its promise
\* has settled), the staging directory no longer exists on disk.
C1_StagingGoneWhenSettled ==
  (result # "pending" /\ StagingCreated) => ~dirExists

\* C2: the removal of the staging directory never starts while a write into
\* it (staged bundle or staged map of any unit) is still in flight.
C2_NoRemovalWhileWriting ==
  rm # "none" => \A i \in DOMAIN units : ~WriteInFlight(units[i])

\* errors that are no per-file failure of the kinds C3 lists
NotPerFileErrors ==
  {"mkdtemp-failed", "glob-failed", "upload-failed", "delete-glob-failed",
   "rm-failed", "hook-threw"}

\* C3: a per-file failure inside one unit (here: in a finished run whose units
\* were started and in which nothing but such failures happened) aborts
\* nothing: every unit ran to completion, the uploader was invoked and the
\* recoverable-error callback was not.
C3_PerFileFailureIsolated ==
  (Finished /\ units # <<>> /\ caught \notin NotPerFileErrors)
    => /\ \A i \in DOMAIN units : ~UnitBusy(units[i])
       /\ Len(uploadCalls) = 1
       /\ handled = <<>>

\* C4: a staged map whose document has a `sources` array has a `sources`
\* array of the same length whose entry at every position is what the rewrite
\* hook returned for the input entry at that position.
C4_SourcesComeFromHook ==
  \A i \in DOMAIN units :
    LET u == units[i]
        input == u.parsed.sources
    IN  (u.mp = "written" /\ input.tag = "array" /\ StagedMapPath(u) \in DOMAIN disk)
          => LET output == disk[StagedMapPath(u)].json.sources
             IN  /\ output.tag = "array"
                 /\ Len(output.items) = Len(input.items)
                 /\ \A k \in 1..Len(input.items) :
                      output.items[k] =
                        CallHook(opts.rewriteSourcesHook, input.items[k], u.parsed).value

\* the values of the sourceMappingURL comments that stand on a line of their own
SourceMappingUrlValues(text) ==
  {Tail(l) : l \in {m \in Range(Split(text, NL)) : Len(m) >= 1 /\ m[1] = SMU}}

\* the Source-Map Locator, called by this unit, has returned
LocatorReturned(u) == u.st = "started" /\ u.mp \notin {"none", "access"}

\* C5: when the bundle's text has a sourceMappingURL comment on its own line
\* and a file exists at <bundlePath>.map, the Locator as invoked by the Bundle
\* Preparer returns the path resolved from the comment, not the .map sibling.
C5_SourceMappingUrlWins ==
  \A i \in DOMAIN units :
    LET u == units[i]
        values == SourceMappingUrlValues(disk[u.bundleFilePath].text)
    IN  (/\ LocatorReturned(u)
         /\ values # {}
         /\ AdjacentSourceMapFilePath(u.bundleFilePath) \in DOMAIN disk)
          => \E v \in values :
               u.sourceMapPath = ResolveSourceMappingUrl(u.bundleFilePath, v)

\* C6: an exception that escapes the try block is caught once: captureException
\* is called, then the flush is awaited, then handleRecoverableError is called
\* exactly once with the caught error, and the run's promise rejects only if
\* that callback threw.
C6_CaughtOnceAndForwarded ==
  /\ (\E i \in DOMAIN units : UnitPromise(units[i]) = "rejected") => caught # Undefined
  /\ caught = Undefined => handled = <<>> /\ Count(trace, "captureException") = 0
  /\ caught # Undefined =>
       /\ Count(trace, "captureException") = 1
       /\ Count(trace, "flush") = 1
       /\ pc \in {"flush", "done"}
       /\ pc = "flush" => handled = <<>> /\ trace[Len(trace)] = "flush"
                          /\ trace[Len(trace) - 1] = "captureException"
  /\ (Finished /\ caught # Undefined) =>
       /\ Len(handled) = 1
       /\ handled[1].error = caught
       /\ \E h \in 3..Len(trace) :
            /\ trace[h] = "handleRecoverableError"
            /\ trace[h - 1] = "flush"
            /\ trace[h - 2] = "captureException"
       /\ Count(trace, "handleRecoverableError") = 1
       /\ result = IF handled[1].threw THEN "rejected" ELSE "fulfilled"

\* C7: once the staging directory has been created, every finished run has
\* started its removal exactly once, as the last thing the run did; and no
\* run is stuck before it finishes.
C7_CleanupLastOnEveryPath ==
  /\ Count(trace, "rm") <= 1
  /\ rm # "none" <=> Count(trace, "rm") = 1
  /\ rm # "none" => Finished /\ trace[Len(trace)] = "rm"
  /\ (Finished /\ StagingCreated) => rm # "none"
  /\ pc = "prepare" => \E i \in DOMAIN units : UnitBusy(units[i])
  /\ pc = "rmSources" => rmPending # {}

\* what the unit's map turned out to be: text JSON.parse or lines 282-283 throw on
MapContentMalformed(u) ==
  /\ u.sourceMapPath \in DOMAIN disk
  /\ disk[u.sourceMapPath].json.kind \in {"invalid", "null", "number"}

\* C8: a failure on the map path of a unit (no map, unreadable map, malformed
\* map, failed map write) skips only the staged map: the staged bundle is
\* written (unless its own write fails), no map file is written, and the unit
\* raises no error.
C8_MapFailureSkipsOnlyMap ==
  \A i \in DOMAIN units :
    LET u == units[i]
        mapFailed ==
          \/ u.mp \in {"noMap", "readErr", "parseErr", "writeErr"}
          \/ u.st = "started" /\ u.mp \notin MapPending /\ MapContentMalformed(u)
    IN  mapFailed =>
          /\ StagedMapPath(u) \notin DOMAIN disk
          /\ u.bw \in {"inflight", "ok", "failed"}
          /\ u.bw = "ok" =>
               /\ StagedBundlePath(u) \in DOMAIN disk
               /\ disk[StagedBundlePath(u)] = TextFile(u.bundleContent)
          /\ u.bw # "failed" => UnitPromise(u) # "rejected"

\* C9: every staged map file contains debug_id and debugId, both equal to the
\* identifier extracted from the unit's bundle.
C9_StagedMapHasBothIds ==
  \A i \in DOMAIN units :
    LET u == units[i]
    IN  (u.mp = "written" /\ StagedMapPath(u) \in DOMAIN disk)
          => /\ disk[StagedMapPath(u)].json.debug_id = u.debugId
             /\ disk[StagedMapPath(u)].json.debugId = u.debugId

\* the Candidate Set of spec section 3, from the files on disk
CandidateSet ==
  SelectSeq(Glob(IF opts.assets # Undefined THEN opts.assets ELSE AssetsPattern, disk),
            IsScript)

\* C10: the uploader is invoked at most once, exactly once when the Candidate
\* Set is not empty and nothing threw before the upload step, with the staging
\* directory as the single include path, rewrite false, the configured dist,
\* and the release name or the placeholder "undefined".
C10_UploadOnceWithStagingDir ==
  /\ Len(uploadCalls) <= 1
  /\ (Finished /\ Len(CandidateSet) > 0
        /\ caught \notin {"mkdtemp-failed", "glob-failed", "bundle-write-failed",
                          "hook-threw"})
       => Len(uploadCalls) = 1
  /\ \A c \in Range(uploadCalls) :
       /\ c.include = <<[paths |-> <<TmpUploadFolder>>, rewrite |-> FALSE,
                         dist |-> opts.dist]>>
       /\ c.releaseName = (IF opts.releaseName = Undefined THEN "undefined"
                           ELSE opts.releaseName)

\* levels of the logger that report a problem
ProblemLevels == {"warn", "error"}
\* failures of the steps that run whatever the `assets` option is
StepErrors == {"mkdtemp-failed", "glob-failed", "delete-glob-failed", "rm-failed"}

\* C11 as stated: when `assets` is explicitly the empty list the run does zero
\* work: no unit is started, nothing is staged, the uploader is not invoked,
\* no warning or error is logged, and the recoverable-error callback is not
\* invoked.
C11_EmptyAssetsZeroWork ==
  opts.assets = EmptyList =>
    /\ units = <<>>
    /\ Staged = {}
    /\ uploadCalls = <<>>
    /\ \A l \in logs : l.level \notin ProblemLevels
    /\ handled = <<>>

\* C11 as amended: when `assets` is explicitly the empty list no unit is
\* started, nothing is staged, the uploader is not invoked and no warning or
\* error is logged; the recoverable-error callback is invoked only for a
\* failure of mkdtemp, of the discovery glob or of the post-upload deletion.
C11_EmptyAssetsNoPreparation ==
  opts.assets = EmptyList =>
    /\ units = <<>>
    /\ Staged = {}
    /\ uploadCalls = <<>>
    /\ \A l \in logs : l.level \notin ProblemLevels
    /\ \A h \in Range(handled) : h.error \in StepErrors
    /\ (Finished /\ caught = Undefined) =>
         /\ handled = <<>>
         /\ Log("debug", "empty assets option", 0) \in logs

\* the paths a started unit writes to
StagedPathsOf(u) == {StagedBundlePath(u), StagedMapPath(u)}

\* C12: the units of one run have pairwise distinct chunk indices and never
\* write to the same staged path, also when they extracted the same
\* identifier; a file a unit staged holds what that unit wrote.
C12_DistinctStagedPaths ==
  /\ \A i, j \in DOMAIN units :
       i # j =>
         /\ units[i].chunkIndex # units[j].chunkIndex
         /\ (units[i].st = "started" /\ units[j].st = "started")
              => StagedPathsOf(units[i]) \cap StagedPathsOf(units[j]) = {}
  /\ \A i \in DOMAIN units :
       LET u == units[i]
       IN  /\ (u.bw = "ok" /\ StagedBundlePath(u) \in DOMAIN disk)
                => disk[StagedBundlePath(u)] = TextFile(u.bundleContent)
           /\ (u.mp = "written" /\ StagedMapPath(u) \in DOMAIN disk)
                => disk[StagedMapPath(u)] = JsonStringify(u.map)

\* the text has a well-formed sentry-dbid-<uuid> marker somewhere
HasWellFormedMarker(text) ==
  \E p \in 1..(Len(text) - 1) : text[p] = MARK /\ text[p + 1] \in Uuids

\* unit i has read a bundle text without a well-formed marker
ReadNoMarker(i) ==
  /\ units[i].st # "readBundle"
  /\ units[i].skip # "readError"
  /\ units[i].bundleFilePath \in DOMAIN disk
  /\ ~HasWellFormedMarker(disk[units[i].bundleFilePath].text)

\* C13: a candidate whose text has no well-formed marker is skipped: the unit
\* starts no write, no file with its chunk index is staged, no error is logged
\* or raised for it, and the run goes on to the upload once the sibling units
\* have settled.
C13_NoMarkerSkipsUnit ==
  /\ \A i \in DOMAIN units :
       ReadNoMarker(i) =>
         LET u == units[i]
         IN  /\ u.st = "skipped" /\ u.skip = "noDebugId"
             /\ u.bw = "none" /\ u.mp = "none"
             /\ \A p \in Staged : p[Len(p) - 1] # ToString(u.chunkIndex)
             /\ u.err = Undefined
             /\ UnitPromise(u) = "fulfilled"
             /\ \A l \in logs : l.about = i => l.level \notin ProblemLevels
  /\ (/\ Finished
      /\ \E i \in DOMAIN units : ReadNoMarker(i)
      /\ \A j \in DOMAIN units : units[j].err = Undefined)
       => /\ Len(uploadCalls) = 1
          /\ \A j \in DOMAIN units : ~UnitBusy(units[j])

\* the file <name><extension> of the staging directory
StagedFile(identifier, chunkIndex, extension) ==
  TmpUploadFolder \o <<SEP, identifier, "-", ToString(chunkIndex), extension>>

\* the identifier in the text of the candidate unit i was started for
IdentifierOfCandidate(i) ==
  LET text == disk[units[i].bundleFilePath].text
      p == CHOOSE q \in 1..(Len(text) - 1) :
             /\ text[q] = MARK /\ text[q + 1] \in Uuids
             /\ \A r \in 1..(q - 1) : ~(text[r] = MARK /\ text[r + 1] \in Uuids)
  IN  text[p + 1]

\* C14: every file of the staging directory is <identifier>-<chunkIndex>.js or
\* <identifier>-<chunkIndex>.js.map for the identifier in the text of the
\* candidate with that chunk index, so the staged bundle and the staged map of
\* one unit differ only by the extension.
C14_StagedNamesFollowIdAndIndex ==
  \A p \in Staged :
    \E i \in DOMAIN units :
      /\ units[i].chunkIndex = i - 1
      /\ units[i].bundleFilePath \in DOMAIN disk
      /\ HasWellFormedMarker(disk[units[i].bundleFilePath].text)
      /\ \/ p = StagedFile(IdentifierOfCandidate(i), i - 1, ".js")
         \/ p = StagedFile(IdentifierOfCandidate(i), i - 1, ".js.map")

\* the positions of the well-formed markers of a text
WellFormedMarkers(text) ==
  {p \in 1..(Len(text) - 1) : text[p] = MARK /\ text[p + 1] \in Uuids}

\* C15: for a bundle text with exactly one well-formed sentry-dbid-<uuid>
\* marker, wherever it stands, the identifier extracted from the text is that
\* uuid with its case unchanged.
C15_SingleMarkerExtractedVerbatim ==
  \A i \in DOMAIN units :
    LET u == units[i]
        text == disk[u.bundleFilePath].text
    IN  (/\ u.st # "readBundle"
         /\ u.skip # "readError"
         /\ Cardinality(WellFormedMarkers(text)) = 1)
          => /\ u.st = "started"
             /\ \A p \in WellFormedMarkers(text) : u.debugId = text[p + 1]

\* C16: whenever the uploader has been invoked, no unit of the run has a
\* pending operation (bundle read, staged bundle write, map lookup, map read
\* or staged map write), and every unit has settled.
C16_UploadAfterAllUnitsSettled ==
  uploadCalls # <<>> =>
    \A i \in DOMAIN units :
      /\ ~UnitBusy(units[i])
      /\ UnitPromise(units[i]) = "fulfilled"

\* C17: the promise of a unit settles only after both of its sub-tasks, the
\* staged bundle write and the map pipeline, have completed or been skipped:
\* a settled unit has no operation of its own in flight.
C17_UnitSettlesAfterSubTasks ==
  \A i \in DOMAIN units :
    UnitPromise(units[i]) # "pending" => ~UnitBusy(units[i])

\* what discovery, a preparation unit or the uploader threw
PreDeleteErrors == {"glob-failed", "bundle-write-failed", "hook-threw", "upload-failed"}

\* a file that is not in the staging directory
Outside(p) == ~InFolder(p, TmpUploadFolder)

\* C18: when discovery, a preparation unit or the uploader threw, the deletion
\* step is never entered (no second glob, no rm of a source); and a file
\* outside the staging directory disappears only by an rm of the deletion
\* step, which runs only when nothing of the kind threw and, if units were
\* started, after the one upload call has returned.
C18_NoDeletionAfterFailure ==
  /\ [](caught \in PreDeleteErrors =>
          /\ Count(trace, "rmSources") = 0
          /\ Count(trace, "glob") <= 1
          /\ rmPending = {})
  /\ [][\A p \in DOMAIN disk :
          (Outside(p) /\ p \notin DOMAIN disk') =>
            /\ p \in rmPending
            /\ caught \notin PreDeleteErrors
            /\ pc \notin {"glob", "prepare", "upload"}
            /\ units # <<>> => Len(uploadCalls) = 1]_vars

\* C19: when a run with post-upload deletion patterns configured has finished
\* without an exception, no file matched by the patterns is left on disk and
\* no rm is pending, whether or not the uploader was invoked.
C19_ExceptionFreeRunDeletesAll ==
  (Finished /\ caught = Undefined /\ opts.deleteFilesAfterUpload # Undefined)
    => /\ Glob(opts.deleteFilesAfterUpload, disk) = <<>>
       /\ rmPending = {}
       /\ Count(trace, "glob") = 2
       /\ result = "fulfilled"

\* C20: no step creates a file outside the staging directory or changes the
\* content of one; such a file disappears only by an rm of the deletion step,
\* never while the units are being awaited.
C20_OriginalsOnlyRead ==
  [][/\ \A p \in DOMAIN disk :
          Outside(p) =>
            \/ p \in DOMAIN disk' /\ disk'[p] = disk[p]
            \/ p \notin DOMAIN disk' /\ p \in rmPending /\ pc # "prepare"
     /\ \A p \in DOMAIN disk' : Outside(p) => p \in DOMAIN disk]_vars

\* ---------------------------------------------------------------- witnesses

\* C6: a failed upload was caught, forwarded once, and the run fulfilled
C6_Witness ==
  /\ Finished
  /\ caught = "upload-failed"
  /\ handled = <<[error |-> "upload-failed", threw |-> FALSE]>>
  /\ result = "fulfilled"

\* C7: the recoverable-error callback itself threw and the removal still started
C7_Witness ==
  /\ Finished
  /\ StagingCreated
  /\ Len(handled) = 1
  /\ handled[1].threw
  /\ result = "rejected"
  /\ rm = "inflight"

\* C8: a unit whose map failed to parse staged its bundle and no map
C8_Witness ==
  \E i \in DOMAIN units :
    /\ units[i].mp = "parseErr"
    /\ units[i].bw = "ok"
    /\ StagedBundlePath(units[i]) \in DOMAIN disk
    /\ StagedMapPath(units[i]) \notin DOMAIN disk
    /\ UnitPromise(units[i]) = "fulfilled"

\* C10: a finished run without a configured release name uploaded once
C10_Witness ==
  /\ Finished
  /\ opts.releaseName = Undefined
  /\ Len(uploadCalls) = 1
  /\ uploadCalls[1].releaseName = "undefined"
  /\ uploadCalls[1].include[1].paths = <<TmpUploadFolder>>

\* C11: a finished run with an empty `assets` list and a bundle on disk
C11_Witness ==
  /\ Finished
  /\ opts.assets = EmptyList
  /\ BundlePath(0) \in DOMAIN disk
  /\ Log("debug", "empty assets option", 0) \in logs
  /\ caught = Undefined
  /\ units = <<>>

\* C12: two units that extracted the same identifier both staged a bundle and
\* a map
C12_Witness ==
  /\ Len(units) = 2
  /\ units[1].debugId = units[2].debugId
  /\ \A i \in {1, 2} :
       /\ units[i].bw = "ok"
       /\ units[i].mp = "written"
       /\ StagedPathsOf(units[i]) \subseteq DOMAIN disk

\* C13: a bundle with a malformed marker was skipped, its sibling was staged
\* and the upload was invoked
C13_Witness ==
  /\ Finished
  /\ Len(units) = 2
  /\ ReadNoMarker(1)
  /\ units[1].st = "skipped"
  /\ units[2].bw = "ok"
  /\ Len(uploadCalls) = 1

\* C14: the staging directory holds the bundle and the map of the second unit
C14_Witness ==
  /\ Len(units) = 2
  /\ units[2].debugId # Undefined
  /\ StagedFile(units[2].debugId, 1, ".js") \in Staged
  /\ StagedFile(units[2].debugId, 1, ".js.map") \in Staged

\* C15: an upper-case uuid was extracted from a marker that stands on the
\* second line, after a malformed marker
C15_Witness ==
  \E i \in DOMAIN units :
    /\ units[i].st = "started"
    /\ units[i].debugId = UuidUpper
    /\ disk[units[i].bundleFilePath].text
         = <<MARK, "not-a-uuid", NL, "x", MARK, UuidUpper, "x">>

\* C16: the upload is in flight after two units staged their bundles, one of
\* them a map as well
C16_Witness ==
  /\ pc = "upload"
  /\ Len(units) = 2
  /\ units[1].bw = "ok" /\ units[2].bw = "ok"
  /\ \E i \in {1, 2} : units[i].mp = "written"

\* C18: the upload threw in a run with deletion patterns configured, and the
\* source map the patterns match is still on disk when the run has finished
C18_Witness ==
  /\ Finished
  /\ caught = "upload-failed"
  /\ opts.deleteFilesAfterUpload = DeletePattern
  /\ MapPath(0) \in DOMAIN disk

\* C19: a run with an empty `assets` list did not upload and removed the two
\* source maps the deletion patterns matched
C19_Witness ==
  /\ Finished
  /\ caught = Undefined
  /\ opts.assets = EmptyList
  /\ opts.deleteFilesAfterUpload = DeletePattern
  /\ uploadCalls = <<>>
  /\ Count(trace, "rmSources") = 1
  /\ Log("debug", "deleting asset", 2) \in logs
  /\ {BundlePath(0), BundlePath(1)} \subseteq DOMAIN disk
  /\ Glob(DeletePattern, disk) = <<>>

\* C20: the units have settled and the upload is in flight; a unit staged its
\* bundle and a stamped map while its source map on disk has no identifier
\* and its bundle on disk has no debugId comment
C20_Witness ==
  /\ pc = "upload"
  /\ \E i \in DOMAIN units :
       /\ units[i].bw = "ok"
       /\ units[i].mp = "written"
       /\ disk[StagedMapPath(units[i])].json.debugId = units[i].debugId
       /\ disk[units[i].sourceMapPath].json.debugId = Undefined
       /\ disk[units[i].bundleFilePath].text # units[i].bundleContent

====
